---- MODULE Spec2Model ----
(***************************************************************************)
(* Model of the classroom session channel of Speech-Assessment-POC: the    *)
(* useWebSocket hook (hooks/useWebSocket.js), the App component that feeds *)
(* it its credentials (static/src/App.jsx) and the teacher's status grid.  *)
(*                                                                         *)
(* React is modelled at the granularity of one event handler: a handler's  *)
(* batched state updates, the re-render they cause and the effect that     *)
(* re-runs because one of its dependencies changed are one atomic step.    *)
(* JavaScript null is modelled by a falsy value of the same type: the      *)
(* empty string for the token, 0 for a class id, the record Null for an    *)
(* object.                                                                 *)
(***************************************************************************)
EXTENDS Integers, Sequences, FiniteSets, TLC

\* ------------------------------------------------------------------ bounds
MaxSockets == 5
MaxLiveSockets == 3
MaxMsgSockets == 2
MaxSendSockets == 3
MaxInbound == 2
MaxSends == 2
MaxStarts == 3
MaxPolls == 2
MaxUploads == 2
MaxUploadPolls == 1
MaxStatusSockets == 1
MaxBroadcasts == 1
MaxViewSockets == 1

\* ------------------------------------------------------- program constants
BaseDelayMs == 1000
CapDelayMs == 30000
NormalClosure == 1000

\* --------------------------------------------------------------- the data
Null == [null |-> TRUE]

Tokens == {"tokA"}

Users ==
  { [id |-> 10, role |-> "teacher", class_id |-> 7],
    [id |-> 11, role |-> "student", class_id |-> 7],
    [id |-> 12, role |-> "student", class_id |-> 0] }

StudentIds == {11, 13}

Statuses == {"recording", "completed"}

Topics ==
  { [mode |-> "pronunciation", text |-> "The sky is blue."],
    [mode |-> "impromptu-chunked", text |-> "My favourite season"] }

\* Inbound frames: event.data is a JSON text; `json` tells whether it parses
\* and `value` is what JSON.parse returns for it.
Frame(v) == [json |-> TRUE, value |-> v]

TopicFrames == { Frame([type |-> "new_topic", payload |-> p]) : p \in Topics }

StatusFrames ==
  { Frame([type |-> "student_status_update",
           payload |-> [student_id |-> s, status |-> st]]) :
      s \in StudentIds, st \in Statuses }

PingFrame == Frame([type |-> "ping"])

OtherFrames == { Frame([type |-> "class_roster", payload |-> Null]) }

InboundFrames == TopicFrames \cup StatusFrames \cup {PingFrame} \cup OtherFrames

\* Frames the handler cannot process: a text that is not JSON, and a
\* student_status_update that carries no payload.
NotJsonFrame == [json |-> FALSE, value |-> Null]

NoPayloadFrame == Frame([type |-> "student_status_update"])

MalformedFrames == {NotJsonFrame, NoPayloadFrame}

\* Messages the practice components hand to sendMessage.
OutboundMessages == { [type |-> "status_update", status |-> "recording"] }

\* sendStatusUpdate(status) of a practice component: the message it hands to
\* sendMessage.
SendStatusUpdate(status) == [type |-> "status_update", status |-> status]

\* The arguments of the sendStatusUpdate calls of each practice component.
PronunciationLabels == {"recording", "processing", "completed", "error"}

ChunkedLabels == {"recording", "processing", "completed", "error"}

HybridLabels == {"recording (hybrid)", "processing", "completed", "error"}

SentLabels == PronunciationLabels \cup ChunkedLabels \cup HybridLabels

StatusMessages == { SendStatusUpdate(st) : st \in SentLabels }

\* JavaScript undefined, where a status is expected.
Undefined == "undefined"

\* The hub's relay of a student's status update (section 6 of the design): the
\* status it finds in the update's payload, with the sender's identity attached.
HubRelay(student_id, message) ==
  [ type    |-> "student_status_update",
    payload |-> [ student_id |-> student_id,
                  status     |-> IF "payload" \in DOMAIN message
                                   THEN message.payload.status
                                   ELSE Undefined ] ]

VARIABLES
  token,              \* App: token state ("" for null)
  currentUser,        \* App: currentUser state (Null or a user record)
  wsStatus,           \* hook state
  reconnectAttempts,  \* hook state
  assignedTask,       \* hook state (Null or a topic payload)
  studentStatuses,    \* hook state: student id -> status, a partial map
  wsRef,              \* wsRef.current: 0 for null, else a socket's index
  effectWs,           \* the `ws` of the effect whose cleanup is registered (0: none)
  sockets,            \* every WebSocket the hook has created, in creation order
  timers,             \* pending reconnect timeouts: their delays, in start order
  wire,               \* frames handed to WebSocket.send, in order
  sendCalls,          \* history: the calls of sendMessage, in order
  lastEvent,          \* history: the handler that ran last, with the close code it saw
  failCount,          \* history: non-clean closes handled since the last open
  nInbound,           \* history: number of inbound frames processed
  updatesSeen,        \* history: per student, the statuses of the updates processed, in order
  lastMessage,        \* history: the inbound frame the last step processed, and whether it threw
  mounted,            \* BatchPractice: the component is mounted
  batchStatus,        \* BatchPractice: status state (frozen at unmount: later sets are no-ops)
  jobId,              \* BatchPractice: jobId state (0 for null)
  results,            \* BatchPractice: results state (Null or a report)
  pollIntervalRef,    \* BatchPractice: pollIntervalRef.current (0 for null, else an interval id)
  intervals,          \* the browser's active intervals, by id (interval j polls job j)
  uploads,            \* start uploads in flight
  queries,            \* per job, status queries in flight
  fetches,            \* per job, result fetches in flight
  answers,            \* the analysis service: per job, the outcomes of its status queries so far
  nStarts,            \* history: calls of startAnalysis
  nJobs,              \* history: start uploads that succeeded (the job ids handed out)
  statusQueries,      \* history: per job, status queries issued
  resultFetches,      \* history: per job, result fetches issued
  lastBatch,          \* history: BatchPractice's handler that ran last
  hubMembers,         \* the hub: the connections registered, of all classes
  hubInbox,           \* per connection, the frames the hub sent that the client has not
                      \* handled yet, each with the number of its broadcast
  clientTask,         \* per connection, its client's assignedTask
  broadcasts,         \* history: the broadcasts, each with the teacher's input and
                      \* the connections it was sent to
  appMode,            \* App: mode state ("" for null, else the mode picked in the selector)
  view                \* App: view state ('practice' or 'progress')

hookVars ==
  << token, currentUser, wsStatus, reconnectAttempts, assignedTask,
     studentStatuses, wsRef, effectWs, sockets, timers, wire, sendCalls,
     lastEvent, failCount, nInbound, updatesSeen, lastMessage >>

batchVars ==
  << mounted, batchStatus, jobId, results, pollIntervalRef, intervals, uploads,
     queries, fetches, answers, nStarts, nJobs, statusQueries, resultFetches,
     lastBatch >>

hubVars == << hubMembers, hubInbox, clientTask, broadcasts >>

appVars == << appMode, view >>

vars == << hookVars, batchVars, hubVars, appVars >>

\* ------------------------------------------------------------- helpers
Min(a, b) == IF a < b THEN a ELSE b

\* The history's entry for a step that handled no inbound frame.
NoMessage == [data |-> Null, threw |-> FALSE]

\* An entry of the history: the handler that ran, and for a socket's event the
\* socket (of a close or message event) and the close code.
Event(kind, sock, code) == [kind |-> kind, sock |-> sock, code |-> code]

RECURSIVE Pow2(_)
Pow2(n) == IF n = 0 THEN 1 ELSE 2 * Pow2(n - 1)

\* Mutant of CredentialsPresent: the guard without its class_id test.
CredentialsPresentNoClass(user, tok) ==
  /\ user # Null
  /\ tok # ""

\* `!currentUser || !currentUser.class_id || !token` is false.
CredentialsPresent(user, tok) ==
  /\ user # Null
  /\ user.class_id # 0
  /\ tok # ""

\* Math.min(1000 * Math.pow(2, reconnectAttempts), 30000)
BackoffDelay(attempts) == Min(BaseDelayMs * Pow2(attempts), CapDelayMs)

\* The two close handlers a socket can hold: the one connect() attaches, which
\* closes over the reconnectAttempts of its render, and the cleanup's `() => {}`.
Retry(attempts) == [retry |-> TRUE, attempts |-> attempts]

Noop == [retry |-> FALSE]

\* WebSocket.close(): a socket that is connecting or open starts closing.
CloseSocket(sock, by) ==
  IF sock.readyState \in {"CONNECTING", "OPEN"}
    THEN [sock EXCEPT !.readyState = "CLOSING", !.closedBy = by]
    ELSE sock

\* Mutants of Cleanup: one that closes the socket with its close handler still
\* attached, one that detaches the handler and leaves the socket open.
CleanupKeepsHandler(socks, ws) ==
  IF ws = 0
    THEN socks
    ELSE [socks EXCEPT ![ws] = CloseSocket(@, "cleanup")]

CleanupLeavesOpen(socks, ws) ==
  IF ws = 0
    THEN socks
    ELSE [socks EXCEPT ![ws].onclose = Noop]

\* The effect's cleanup: detach the close handler of its socket, then close it.
Cleanup(socks, ws) ==
  IF ws = 0
    THEN socks
    ELSE [socks EXCEPT ![ws] = CloseSocket([@ EXCEPT !.onclose = Noop], "cleanup")]

\* new WebSocket(`ws://localhost:8000/ws/${class_id}?token=${token}`) with the
\* handlers connect() attaches, which close over this render's reconnectAttempts.
NewSocket(user, tok, attempts) ==
  [ readyState |-> "CONNECTING",
    onclose    |-> Retry(attempts),
    class_id   |-> user.class_id,
    token      |-> tok,
    closedBy   |-> "none" ]

\* The part of the hook's state an effect run works on.
Hook(socks, ref, ws, status) ==
  [sockets |-> socks, wsRef |-> ref, effectWs |-> ws, wsStatus |-> status]

\* One run of the effect after a change of a dependency, on the hook state h
\* the handler's own work left: the previous effect's cleanup, then the guard,
\* then connect().
RunEffect(h, user, tok, attempts) ==
  LET cleaned == Cleanup(h.sockets, h.effectWs) IN
  IF CredentialsPresent(user, tok)
    THEN Hook(Append(cleaned, NewSocket(user, tok, attempts)),
              Len(cleaned) + 1, Len(cleaned) + 1, "Connecting...")
    ELSE Hook(cleaned, h.wsRef, 0, h.wsStatus)

\* The hook state h becomes the next state, if the model's bound allows it.
Commit(h) ==
  /\ Len(h.sockets) <= MaxSockets
  /\ sockets' = h.sockets
  /\ wsRef' = h.wsRef
  /\ effectWs' = h.effectWs
  /\ wsStatus' = h.wsStatus

Current == Hook(sockets, wsRef, effectWs, wsStatus)

\* The jobs the analysis service can hand out: one per start upload.
Jobs == 1..MaxStarts

\* An entry of BatchPractice's history: the handler that ran and the job of the
\* response it handled (0: none).
BatchEvent(kind, job) == [kind |-> kind, job |-> job]

\* The connections the hub can hold: three students of class 7, a student of
\* class 8 and the teacher of class 7.
Connections == 1..5

ConnectionClass(c) == IF c = 4 THEN 8 ELSE 7

ConnectionRole(c) == IF c = 5 THEN "teacher" ELSE "student"

Classes == {7, 8}

\* ---------------------------------------------------------------- Init
Init ==
  /\ token \in {""} \cup Tokens
  /\ currentUser = Null
  /\ wsStatus = "Disconnected"
  /\ reconnectAttempts = 0
  /\ assignedTask = Null
  /\ studentStatuses = [s \in {} |-> ""]
  /\ wsRef = 0
  /\ effectWs = 0
  /\ sockets = << >>
  /\ timers = << >>
  /\ wire = << >>
  /\ sendCalls = << >>
  /\ lastEvent = Event("mount", 0, 0)
  /\ failCount = 0
  /\ nInbound = 0
  /\ updatesSeen = [id \in StudentIds |-> << >>]
  /\ lastMessage = NoMessage
  /\ mounted = TRUE
  /\ batchStatus = "idle"
  /\ jobId = 0
  /\ results = Null
  /\ pollIntervalRef = 0
  /\ intervals = {}
  /\ uploads = 0
  /\ queries = [j \in Jobs |-> 0]
  /\ fetches = [j \in Jobs |-> 0]
  /\ answers = [j \in Jobs |-> << >>]
  /\ nStarts = 0
  /\ nJobs = 0
  /\ statusQueries = [j \in Jobs |-> 0]
  /\ resultFetches = [j \in Jobs |-> 0]
  /\ lastBatch = BatchEvent("mount", 0)
  /\ hubMembers = {}
  /\ hubInbox = [c \in Connections |-> << >>]
  /\ clientTask = [c \in Connections |-> Null]
  /\ broadcasts = << >>
  /\ appMode = ""
  /\ view = "practice"

\* ------------------------------------------------------- App's actions
\* App's effect on [assignedTask, currentUser], run after a step that changed
\* one of them: a student who holds an assignment is put in the practice view.
ViewEffect ==
  view' = IF /\ << assignedTask', currentUser' >> # << assignedTask, currentUser >>
             /\ assignedTask' # Null
             /\ currentUser' # Null
             /\ currentUser'.role = "student"
            THEN "practice"
            ELSE view

\* LoginPage -> handleLoginSuccess: setToken(newToken). The hook's effect
\* re-runs with the new token.
LoginSuccess(tok) ==
  /\ token = ""
  /\ currentUser = Null
  /\ token' = tok
  /\ Commit(RunEffect(Current, currentUser, tok, reconnectAttempts))
  /\ lastEvent' = Event("login", 0, 0)
  /\ lastMessage' = NoMessage
  /\ UNCHANGED << currentUser, reconnectAttempts, assignedTask, studentStatuses,
                  timers, wire, sendCalls, failCount, nInbound,
                  updatesSeen >>
  /\ ViewEffect
  /\ UNCHANGED << appMode, batchVars, hubVars >>

\* fetchUser resolves: setCurrentUser(response.data), a new object.
FetchUserOk(user) ==
  /\ token # ""
  /\ currentUser = Null
  /\ currentUser' = user
  /\ Commit(RunEffect(Current, user, token, reconnectAttempts))
  /\ lastEvent' = Event("user", 0, 0)
  /\ lastMessage' = NoMessage
  /\ UNCHANGED << token, reconnectAttempts, assignedTask, studentStatuses,
                  timers, wire, sendCalls, failCount, nInbound,
                  updatesSeen >>
  /\ ViewEffect
  /\ UNCHANGED << appMode, batchVars, hubVars >>

\* handleLogout (the Logout button, or fetchUser's catch): setToken(null)
\* re-runs the hook's effect with the user still set; App's token effect then
\* does setCurrentUser(null), and when that changes currentUser the hook's
\* effect runs once more.
Logout ==
  /\ token # ""
  /\ token' = ""
  /\ currentUser' = Null
  /\ LET h == RunEffect(Current, currentUser, "", reconnectAttempts) IN
     IF currentUser # Null
       THEN Commit(RunEffect(h, Null, "", reconnectAttempts))
       ELSE Commit(h)
  /\ lastEvent' = Event("logout", 0, 0)
  /\ lastMessage' = NoMessage
  /\ UNCHANGED << reconnectAttempts, assignedTask, studentStatuses,
                  timers, wire, sendCalls, failCount, nInbound,
                  updatesSeen >>
  /\ ViewEffect
  /\ UNCHANGED << appMode, batchVars, hubVars >>

\* ------------------------------------------------- the hook's handlers
\* ws.onopen: setWsStatus('Connected'); setReconnectAttempts(0). The effect
\* re-runs when that changes reconnectAttempts.
SocketOpen(s) ==
  /\ s \in DOMAIN sockets
  /\ sockets[s].readyState = "CONNECTING"
  /\ LET h == Hook([sockets EXCEPT ![s].readyState = "OPEN"], wsRef, effectWs,
                   "Connected") IN
     IF reconnectAttempts # 0
       THEN Commit(RunEffect(h, currentUser, token, 0))
       ELSE Commit(h)
  /\ reconnectAttempts' = 0
  /\ failCount' = 0
  /\ lastEvent' = Event("open", 0, 0)
  /\ lastMessage' = NoMessage
  /\ UNCHANGED << token, currentUser, assignedTask, studentStatuses, timers,
                  wire, sendCalls, nInbound,
                  updatesSeen >>
  /\ ViewEffect
  /\ UNCHANGED << appMode, batchVars, hubVars >>

\* ws.onerror: ws.close(). The browser fires error when a connection fails,
\* and the close event follows.
SocketError(s) ==
  /\ s \in DOMAIN sockets
  /\ sockets[s].readyState \in {"CONNECTING", "OPEN"}
  /\ sockets' = [sockets EXCEPT ![s] = CloseSocket(@, "onerror")]
  /\ lastEvent' = Event("error", 0, 0)
  /\ lastMessage' = NoMessage
  /\ UNCHANGED << token, currentUser, wsStatus, reconnectAttempts, assignedTask,
                  studentStatuses, wsRef, effectWs, timers, wire, sendCalls,
                  failCount, nInbound,
                  updatesSeen >>
  /\ ViewEffect
  /\ UNCHANGED << appMode, batchVars, hubVars >>

\* The close codes the browser reports: 1000 when the server closes an open
\* connection normally, 1006 when the connection is lost or has failed (after
\* the error event), 1005 when the client's own close() completes.
CloseCodes(sock) ==
  IF sock.readyState = "OPEN" THEN {NormalClosure, 1006}
  ELSE IF sock.readyState = "CLOSING" /\ sock.closedBy = "onerror" THEN {1006}
  ELSE IF sock.readyState = "CLOSING" THEN {1005}
  ELSE {}

\* A socket after its close event: it dispatches no further event, so the
\* handlers it held (and what they closed over) go with it.
Closed(sock) ==
  [sock EXCEPT !.readyState = "CLOSED", !.onclose = Noop, !.closedBy = "none"]

\* Mutant of OnCloseTimers: a handler that gives up after the first retry.
OnCloseTimersGivesUp(attempts, code) ==
  IF code # NormalClosure /\ attempts < 1
    THEN Append(timers, BackoffDelay(attempts))
    ELSE timers

\* The timers pending after ws.onclose saw `code` on a socket whose handlers
\* closed over `attempts`.
OnCloseTimers(attempts, code) ==
  IF code # NormalClosure
    THEN Append(timers, BackoffDelay(attempts))
    ELSE timers

\* The close event of socket s: ws.onclose, or the empty handler the cleanup
\* put in its place.
SocketClose(s, code) ==
  /\ s \in DOMAIN sockets
  /\ code \in CloseCodes(sockets[s])
  /\ sockets' = [sockets EXCEPT ![s] = Closed(@)]
  /\ lastEvent' = Event("close", s, code)
  /\ IF sockets[s].onclose.retry
       THEN /\ wsStatus' = "Disconnected"
            /\ timers' = OnCloseTimers(sockets[s].onclose.attempts, code)
            /\ failCount' = IF code # NormalClosure THEN failCount + 1 ELSE failCount
       ELSE UNCHANGED << wsStatus, timers, failCount >>
  /\ lastMessage' = NoMessage
  /\ UNCHANGED << token, currentUser, reconnectAttempts, assignedTask,
                  studentStatuses, wsRef, effectWs, wire, sendCalls, nInbound,
                  updatesSeen >>
  /\ ViewEffect
  /\ UNCHANGED << appMode, batchVars, hubVars >>

\* A timeout can fire once every timeout that was started before it with a
\* delay that is not longer has fired.
CanFire(i) ==
  /\ i \in DOMAIN timers
  /\ \A j \in 1..(i - 1) : timers[j] > timers[i]

RemoveAt(seq, i) == SubSeq(seq, 1, i - 1) \o SubSeq(seq, i + 1, Len(seq))

\* The timeout's callback: setReconnectAttempts(prev => prev + 1), which
\* re-runs the effect.
TimerFire(i) ==
  /\ CanFire(i)
  /\ timers' = RemoveAt(timers, i)
  /\ reconnectAttempts' = reconnectAttempts + 1
  /\ Commit(RunEffect(Current, currentUser, token, reconnectAttempts + 1))
  /\ lastEvent' = Event("timer", 0, 0)
  /\ lastMessage' = NoMessage
  /\ UNCHANGED << token, currentUser, assignedTask, studentStatuses, wire,
                  sendCalls, failCount, nInbound,
                  updatesSeen >>
  /\ ViewEffect
  /\ UNCHANGED << appMode, batchVars, hubVars >>

\* Mutant of Pong: the probe echoed back instead of acknowledged.
PongEchoesPing(s) == [sock |-> s, data |-> [type |-> "ping"], call |-> 0]

\* ws.send(JSON.stringify({ type: 'pong' })) on socket s: the frame on the wire
\* (call 0: not a call of sendMessage).
Pong(s) == [sock |-> s, data |-> [type |-> "pong"], call |-> 0]

\* Mutant of SetStatus: the new entry without the spread of the previous map.
SetStatusDropsOthers(prev, student_id, status) ==
  [k \in {student_id} |-> status]

\* The studentStatuses object with [student_id]: status spread over it.
SetStatus(prev, student_id, status) ==
  [k \in DOMAIN prev \cup {student_id} |->
     IF k = student_id THEN status ELSE prev[k]]

\* What a message handler works on: the two pieces of hook state it can set,
\* the wire, and whether it threw.
Handled(task, statuses, sent, threw) ==
  [assignedTask |-> task, studentStatuses |-> statuses, wire |-> sent, threw |-> threw]

\* Mutant of OnNewTopic: a topic is taken only when none is held.
OnNewTopicKeepsHeld(st, message) ==
  IF st.assignedTask = Null
    THEN [st EXCEPT !.assignedTask = message.payload]
    ELSE st

\* The new_topic branch: setAssignedTask(message.payload).
OnNewTopic(st, message) == [st EXCEPT !.assignedTask = message.payload]

\* The student_status_update branch: destructuring message.payload throws
\* when there is none.
OnStatusUpdate(st, message) ==
  IF "payload" \in DOMAIN message /\ message.payload # Null
    THEN [st EXCEPT !.studentStatuses =
            SetStatus(st.studentStatuses, message.payload.student_id,
                      message.payload.status)]
    ELSE [st EXCEPT !.threw = TRUE]

\* The ping branch.
OnPing(st, s) == [st EXCEPT !.wire = Append(st.wire, Pong(s))]

\* Mutant of OnOther: an unknown type treated as the end of the task.
OnOtherClearsTask(st, message) == [st EXCEPT !.assignedTask = Null]

\* The final else: console.log only.
OnOther(st, message) == st

\* ws.onmessage of socket s on event.data = data: what it leaves in
\* assignedTask, studentStatuses and on the wire, and whether it threw
\* (JSON.parse throws on a text that is not JSON).
OnMessage(s, data) ==
  LET st == Handled(assignedTask, studentStatuses, wire, FALSE) IN
  IF ~data.json THEN [st EXCEPT !.threw = TRUE]
  ELSE LET message == data.value IN
    IF message.type = "new_topic" THEN OnNewTopic(st, message)
    ELSE IF message.type = "student_status_update" THEN OnStatusUpdate(st, message)
    ELSE IF message.type = "ping" THEN OnPing(st, s)
    ELSE OnOther(st, message)

\* TeacherDashboard: studentStatuses[student.id] || 'waiting'.
StatusShown(statuses, student_id) ==
  IF student_id \in DOMAIN statuses /\ statuses[student_id] # ""
    THEN statuses[student_id]
    ELSE "waiting"

\* History: the statuses of the updates processed for each student.
UpdateSeen(seen, data) ==
  IF /\ data.json
     /\ data.value.type = "student_status_update"
     /\ "payload" \in DOMAIN data.value
     /\ data.value.payload # Null
    THEN [seen EXCEPT ![data.value.payload.student_id] =
            Append(@, data.value.payload.status)]
    ELSE seen

\* A message event of an open socket.
Receive(s, data) ==
  /\ s \in DOMAIN sockets
  /\ sockets[s].readyState = "OPEN"
  /\ nInbound < MaxInbound
  /\ nInbound' = nInbound + 1
  /\ LET r == OnMessage(s, data) IN
       /\ assignedTask' = r.assignedTask
       /\ studentStatuses' = r.studentStatuses
       /\ wire' = r.wire
       /\ lastMessage' = [data |-> data, threw |-> r.threw]
  /\ updatesSeen' = UpdateSeen(updatesSeen, data)
  /\ lastEvent' = Event("message", s, 0)
  /\ UNCHANGED << token, currentUser, wsStatus, reconnectAttempts, wsRef,
                  effectWs, sockets, timers, sendCalls, failCount >>
  /\ ViewEffect
  /\ UNCHANGED << appMode, batchVars, hubVars >>

\* wsRef.current && wsRef.current.readyState === WebSocket.OPEN
RefIsOpen == wsRef # 0 /\ sockets[wsRef].readyState = "OPEN"

\* Mutant of SendMessageWire: sendMessage without the readyState test.
SendMessageWireAnyState(message) ==
  IF wsRef # 0
    THEN Append(wire, [sock |-> wsRef, data |-> message, call |-> Len(sendCalls) + 1])
    ELSE wire

\* sendMessage(message): the wire after it.
SendMessageWire(message) ==
  IF wsRef # 0 /\ sockets[wsRef].readyState = "OPEN"
    THEN Append(wire, [sock |-> wsRef, data |-> message, call |-> Len(sendCalls) + 1])
    ELSE wire

SendMessage(message) ==
  /\ Len(sendCalls) < MaxSends
  /\ sendCalls' = Append(sendCalls, [message |-> message, open |-> RefIsOpen])
  /\ wire' = SendMessageWire(message)
  /\ lastEvent' = Event("send", 0, 0)
  /\ lastMessage' = NoMessage
  /\ UNCHANGED << token, currentUser, wsStatus, reconnectAttempts, assignedTask,
                  studentStatuses, wsRef, effectWs, sockets, timers, failCount,
                  nInbound,
                  updatesSeen >>
  /\ ViewEffect
  /\ UNCHANGED << appMode, batchVars, hubVars >>

\* App.handleTaskComplete: setAssignedTask(null); setMode(null).
TaskComplete ==
  /\ assignedTask # Null
  /\ assignedTask' = Null
  /\ appMode' = ""
  /\ lastEvent' = Event("taskComplete", 0, 0)
  /\ lastMessage' = NoMessage
  /\ UNCHANGED << token, currentUser, wsStatus, reconnectAttempts,
                  studentStatuses, wsRef, effectWs, sockets, timers, wire,
                  sendCalls, failCount, nInbound,
                  updatesSeen >>
  /\ ViewEffect
  /\ UNCHANGED << batchVars, hubVars >>

\* ------------------------------------------------ App's student screen
\* The modes of TeacherDashboard's three broadcast cards.
BroadcastModes == {"impromptu-chunked", "pronunciation", "hybrid-groq"}

\* The topics a teacher can broadcast from the dashboard: one per card.
DashboardTopics == { [mode |-> m, text |-> "Clean energy"] : m \in BroadcastModes }

\* The modes SpeakingModeSelector's cards pass to onModeSelect.
SelectorModes ==
  {"pronunciation", "impromptu", "impromptu-chunked", "impromptu_experimental",
   "impromptu-batch", "ab-test", "hybrid-groq"}

\* A rendered element: the component and the text it is given (Undefined for a
\* component that takes none).
Element(component, text) == [component |-> component, text |-> text]

\* App's renderContent for a student.
RenderContent(task, selected) ==
  LET practiceMode == IF task # Null THEN task.mode ELSE selected
      text == IF task # Null THEN task.text ELSE "" IN
  IF practiceMode = "pronunciation" THEN Element("PronunciationPractice", text)
  ELSE IF practiceMode = "impromptu" THEN Element("ImpromptuPractice", Undefined)
  ELSE IF practiceMode = "impromptu-chunked"
    THEN Element("ChunkedImpromptuPractice", text)
  ELSE IF practiceMode = "impromptu_experimental"
    THEN Element("ExperimentalPractice", Undefined)
  ELSE IF practiceMode = "impromptu-batch" THEN Element("BatchPractice", Undefined)
  ELSE IF practiceMode = "ab-test" THEN Element("ABTestPractice", Undefined)
  ELSE Element("SpeakingModeSelector", Undefined)

\* What a student's <main> holds.
StudentMain ==
  IF view = "practice"
    THEN RenderContent(assignedTask, appMode)
    ELSE Element("MyProgressPage", Undefined)

IsStudent == currentUser # Null /\ currentUser.role = "student"

\* A card of SpeakingModeSelector is clicked: setMode(m).
SelectMode(m) ==
  /\ IsStudent
  /\ StudentMain.component = "SpeakingModeSelector"
  /\ appMode' = m
  /\ UNCHANGED view
  /\ UNCHANGED << hookVars, batchVars, hubVars >>

\* The header's Change Mode button: setMode(null).
ChangeMode ==
  /\ IsStudent
  /\ view = "practice"
  /\ appMode # ""
  /\ appMode' = ""
  /\ UNCHANGED view
  /\ UNCHANGED << hookVars, batchVars, hubVars >>

\* The My Progress button, disabled while an assignment is held.
ShowProgress ==
  /\ IsStudent
  /\ view # "progress"
  /\ assignedTask = Null
  /\ view' = "progress"
  /\ UNCHANGED appMode
  /\ UNCHANGED << hookVars, batchVars, hubVars >>

\* The Practice and Back to Practice buttons.
ShowPractice ==
  /\ IsStudent
  /\ view # "practice"
  /\ view' = "practice"
  /\ UNCHANGED appMode
  /\ UNCHANGED << hookVars, batchVars, hubVars >>

\* The Task Complete button, which PronunciationPractice and
\* ChunkedImpromptuPractice show when isTaskAssigned.
TaskCompleteShown ==
  /\ IsStudent
  /\ assignedTask # Null
  /\ StudentMain.component \in {"PronunciationPractice", "ChunkedImpromptuPractice"}

\* ------------------------------------------------ BatchPractice's handlers
\* A state setter of BatchPractice: React drops the update of a component that
\* has been unmounted.
SetState(new, old) == IF mounted THEN new ELSE old

\* clearInterval(id): no effect when id is null or names no active interval.
ClearInterval(active, id) == active \ {id}

Range(seq) == { seq[i] : i \in DOMAIN seq }

\* The Record button (enabled unless recording or processing; the success
\* view has no button): handleRecord.
HandleRecord ==
  /\ mounted
  /\ batchStatus \in {"idle", "error"}
  /\ nStarts < MaxStarts
  /\ results' = Null
  /\ batchStatus' = "recording"
  /\ lastBatch' = BatchEvent("record", 0)
  /\ UNCHANGED << mounted, jobId, pollIntervalRef, intervals, uploads, queries,
                  fetches, answers, nStarts, nJobs, statusQueries, resultFetches >>
  /\ UNCHANGED << hookVars, hubVars, appVars >>

\* The Stop button (enabled while recording): handleStop stops the recorder,
\* whose onstop runs startAnalysis up to the await of the start upload.
HandleStop ==
  /\ mounted
  /\ batchStatus = "recording"
  /\ batchStatus' = "uploading"
  /\ uploads' = uploads + 1
  /\ nStarts' = nStarts + 1
  /\ lastBatch' = BatchEvent("stop", 0)
  /\ UNCHANGED << mounted, jobId, results, pollIntervalRef, intervals, queries,
                  fetches, answers, nJobs, statusQueries, resultFetches >>
  /\ UNCHANGED << hookVars, hubVars, appVars >>

\* startAnalysis after the await, the upload having succeeded: the service
\* hands out the next job id, and the interval that polls it is created.
StartOk ==
  /\ uploads > 0
  /\ uploads' = uploads - 1
  /\ nJobs' = nJobs + 1
  /\ jobId' = SetState(nJobs + 1, jobId)
  /\ batchStatus' = SetState("polling", batchStatus)
  /\ intervals' = intervals \cup {nJobs + 1}
  /\ pollIntervalRef' = nJobs + 1
  /\ lastBatch' = BatchEvent("startOk", nJobs + 1)
  /\ UNCHANGED << mounted, results, queries, fetches, answers, nStarts,
                  statusQueries, resultFetches >>
  /\ UNCHANGED << hookVars, hubVars, appVars >>

\* Mutant of StartFail: a catch that starts polling all the same.
StartFailStillPolls ==
  /\ uploads > 0
  /\ uploads' = uploads - 1
  /\ nJobs' = nJobs + 1
  /\ batchStatus' = SetState("error", batchStatus)
  /\ intervals' = intervals \cup {nJobs + 1}
  /\ pollIntervalRef' = nJobs + 1
  /\ lastBatch' = BatchEvent("startFail", 0)
  /\ UNCHANGED << mounted, jobId, results, queries, fetches, answers, nStarts,
                  statusQueries, resultFetches >>
  /\ UNCHANGED << hookVars, hubVars, appVars >>

\* startAnalysis after the await, the upload having failed: the catch.
StartFail ==
  /\ uploads > 0
  /\ uploads' = uploads - 1
  /\ batchStatus' = SetState("error", batchStatus)
  /\ lastBatch' = BatchEvent("startFail", 0)
  /\ UNCHANGED << mounted, jobId, results, pollIntervalRef, intervals, queries,
                  fetches, answers, nStarts, nJobs, statusQueries, resultFetches >>
  /\ UNCHANGED << hookVars, hubVars, appVars >>

\* A tick of interval i: pollStatus(job i) up to the await of its status query.
Tick(i) ==
  /\ i \in intervals
  /\ statusQueries[i] < MaxPolls
  /\ queries' = [queries EXCEPT ![i] = @ + 1]
  /\ statusQueries' = [statusQueries EXCEPT ![i] = @ + 1]
  /\ lastBatch' = BatchEvent("tick", i)
  /\ UNCHANGED << mounted, batchStatus, jobId, results, pollIntervalRef,
                  intervals, uploads, fetches, answers, nStarts, nJobs,
                  resultFetches >>
  /\ UNCHANGED << hookVars, hubVars, appVars >>

\* What a status query of job j can come back with: the service's status of
\* the job, which stays Succeeded or Failed once it is, or a transport error.
Outcomes(j) ==
  IF "Succeeded" \in Range(answers[j]) THEN {"Succeeded", "error"}
  ELSE IF "Failed" \in Range(answers[j]) THEN {"Failed", "error"}
  ELSE {"Running", "Succeeded", "Failed", "error"}

\* pollStatus(job j) after the await.
StatusResponse(j, outcome) ==
  /\ j \in Jobs
  /\ queries[j] > 0
  /\ outcome \in Outcomes(j)
  /\ queries' = [queries EXCEPT ![j] = @ - 1]
  /\ answers' = [answers EXCEPT ![j] = Append(@, outcome)]
  /\ lastBatch' = BatchEvent(outcome, j)
  /\ IF outcome = "Succeeded"
       THEN /\ intervals' = ClearInterval(intervals, pollIntervalRef)
            /\ batchStatus' = SetState("fetchingResults", batchStatus)
            /\ fetches' = [fetches EXCEPT ![j] = @ + 1]
            /\ resultFetches' = [resultFetches EXCEPT ![j] = @ + 1]
       ELSE IF outcome \in {"Failed", "error"}
         THEN /\ intervals' = ClearInterval(intervals, pollIntervalRef)
              /\ batchStatus' = SetState("error", batchStatus)
              /\ UNCHANGED << fetches, resultFetches >>
         ELSE UNCHANGED << intervals, batchStatus, fetches, resultFetches >>
  /\ UNCHANGED << mounted, jobId, results, pollIntervalRef, uploads, nStarts,
                  nJobs, statusQueries >>
  /\ UNCHANGED << hookVars, hubVars, appVars >>

\* fetchResults(job j) after the await, the fetch having succeeded.
FetchOk(j) ==
  /\ j \in Jobs
  /\ fetches[j] > 0
  /\ fetches' = [fetches EXCEPT ![j] = @ - 1]
  /\ results' = SetState([report |-> j], results)
  /\ batchStatus' = SetState("success", batchStatus)
  /\ lastBatch' = BatchEvent("fetchOk", j)
  /\ UNCHANGED << mounted, jobId, pollIntervalRef, intervals, uploads, queries,
                  answers, nStarts, nJobs, statusQueries, resultFetches >>
  /\ UNCHANGED << hookVars, hubVars, appVars >>

\* fetchResults(job j) after the await, the fetch having failed: the catch.
FetchFail(j) ==
  /\ j \in Jobs
  /\ fetches[j] > 0
  /\ fetches' = [fetches EXCEPT ![j] = @ - 1]
  /\ batchStatus' = SetState("error", batchStatus)
  /\ lastBatch' = BatchEvent("fetchFail", j)
  /\ UNCHANGED << mounted, jobId, results, pollIntervalRef, intervals, uploads,
                  queries, answers, nStarts, nJobs, statusQueries, resultFetches >>
  /\ UNCHANGED << hookVars, hubVars, appVars >>

\* The component is unmounted (navigation away): the effect's cleanup.
Unmount ==
  /\ mounted
  /\ mounted' = FALSE
  /\ intervals' = ClearInterval(intervals, pollIntervalRef)
  /\ lastBatch' = BatchEvent("unmount", 0)
  /\ UNCHANGED << batchStatus, jobId, results, pollIntervalRef, uploads,
                  queries, fetches, answers, nStarts, nJobs, statusQueries,
                  resultFetches >>
  /\ UNCHANGED << hookVars, hubVars, appVars >>

\* ------------------------------------------------ the class channel hub
\* Mutant of BroadcastRequest: the two fields of the body exchanged.
BroadcastRequestSwapped(mode, text) == [mode |-> text, text |-> mode]

\* TeacherDashboard.handleBroadcastTopic: the body it posts to
\* /api/teacher/class/topic for the card's mode and the text typed.
BroadcastRequest(mode, text) == [mode |-> mode, text |-> text]

\* The frame the hub sends for a posted topic.
HubTopicFrame(body) == Frame([type |-> "new_topic", payload |-> body])

\* The connections a broadcast to class cls goes to: the registered student
\* connections of that class.
HubRecipients(members, cls) ==
  { c \in members : ConnectionClass(c) = cls /\ ConnectionRole(c) = "student" }

\* Mutant of HubRegister: a hub that keeps the last topic of each class and
\* sends it to a connection that registers.
HubRegisterReplays(c) ==
  /\ c \notin hubMembers
  /\ hubMembers' = hubMembers \cup {c}
  /\ hubInbox' =
       [hubInbox EXCEPT ![c] =
          IF /\ broadcasts # << >>
             /\ broadcasts[Len(broadcasts)].class = ConnectionClass(c)
             /\ ConnectionRole(c) = "student"
            THEN << [ n    |-> Len(broadcasts),
                      data |-> HubTopicFrame(
                                 BroadcastRequest(broadcasts[Len(broadcasts)].mode,
                                                  broadcasts[Len(broadcasts)].text)) ] >>
            ELSE << >>]
  /\ UNCHANGED << clientTask, broadcasts >>
  /\ UNCHANGED << hookVars, batchVars, appVars >>

\* A connection is accepted and registered in its class's membership set.
HubRegister(c) ==
  /\ c \notin hubMembers
  /\ hubMembers' = hubMembers \cup {c}
  /\ UNCHANGED << hubInbox, clientTask, broadcasts >>
  /\ UNCHANGED << hookVars, batchVars, appVars >>

\* A connection closes: its membership is removed at once, and the frames it
\* had not handled are lost with it.
HubUnregister(c) ==
  /\ c \in hubMembers
  /\ hubMembers' = hubMembers \ {c}
  /\ hubInbox' = [hubInbox EXCEPT ![c] = << >>]
  /\ UNCHANGED << clientTask, broadcasts >>
  /\ UNCHANGED << hookVars, batchVars, appVars >>

\* The teacher of class cls presses Broadcast on a card of mode `mode` with
\* `text` typed (the card refuses an empty text): the post reaches the hub,
\* which sends the topic to the registered student connections of the class.
Broadcast(cls, mode, text) ==
  /\ Len(broadcasts) < MaxBroadcasts
  /\ text # ""
  /\ LET to == HubRecipients(hubMembers, cls)
         sent == [ n    |-> Len(broadcasts) + 1,
                   data |-> HubTopicFrame(BroadcastRequest(mode, text)) ] IN
       /\ hubInbox' = [c \in Connections |->
                         IF c \in to THEN Append(hubInbox[c], sent) ELSE hubInbox[c]]
       /\ broadcasts' = Append(broadcasts,
                               [ class |-> cls, mode |-> mode, text |-> text,
                                 to |-> to ])
  /\ UNCHANGED << hubMembers, clientTask >>
  /\ UNCHANGED << hookVars, batchVars, appVars >>

\* The client of connection c handles the next frame the hub sent it:
\* ws.onmessage, new_topic branch.
ClientReceive(c) ==
  /\ hubInbox[c] # << >>
  /\ hubInbox' = [hubInbox EXCEPT ![c] = Tail(@)]
  /\ clientTask' =
       [clientTask EXCEPT ![c] =
          OnNewTopic([assignedTask |-> @], Head(hubInbox[c]).data.value).assignedTask]
  /\ UNCHANGED << hubMembers, broadcasts >>
  /\ UNCHANGED << hookVars, batchVars, appVars >>

\* The connection's lifecycle: App's credential changes and the socket's and
\* the timers' events.
Next ==
  \/ \E tok \in Tokens : LoginSuccess(tok)
  \/ \E user \in Users : FetchUserOk(user)
  \/ Logout
  \/ \E s \in 1..MaxSockets : SocketOpen(s)
  \/ \E s \in 1..MaxSockets : SocketError(s)
  \/ \E s \in 1..MaxSockets, code \in {NormalClosure, 1005, 1006} :
       SocketClose(s, code)
  \/ \E i \in 1..MaxSockets : TimerFire(i)

Spec == Init /\ [][Next]_vars

\* The lifecycle over at most MaxLiveSockets sockets, with the one scheduling
\* guarantee the hook relies on: a pending timeout's callback eventually runs.
NextLive == Next /\ Len(sockets') <= MaxLiveSockets

SpecLive ==
  /\ Init
  /\ [][NextLive]_vars
  /\ WF_vars(\E i \in 1..MaxLiveSockets :
               TimerFire(i) /\ Len(sockets') <= MaxLiveSockets)

\* The lifecycle over at most MaxMsgSockets sockets, with the frames the
\* server sends on them and the student's completion of a task.
NextMsg ==
  \/ Next /\ Len(sockets') <= MaxMsgSockets
  \/ \E s \in 1..MaxMsgSockets, data \in InboundFrames : Receive(s, data)
  \/ TaskComplete

SpecMsg == Init /\ [][NextMsg]_vars

\* The lifecycle over at most MaxSendSockets sockets, with the components'
\* calls of sendMessage.
NextSend ==
  \/ Next /\ Len(sockets') <= MaxSendSockets
  \/ \E message \in OutboundMessages : SendMessage(message)

SpecSend == Init /\ [][NextSend]_vars

\* The lifecycle over at most MaxMsgSockets sockets, with frames the handler
\* cannot process arriving among status updates.
NextBad ==
  \/ Next /\ Len(sockets') <= MaxMsgSockets
  \/ \E s \in 1..MaxMsgSockets, data \in MalformedFrames \cup StatusFrames :
       Receive(s, data)

SpecBad == Init /\ [][NextBad]_vars

\* BatchPractice: the user's buttons, the responses of the analysis service,
\* the interval's ticks and the unmount.
NextBatch ==
  \/ HandleRecord
  \/ HandleStop
  \/ StartOk
  \/ StartFail
  \/ \E i \in Jobs : Tick(i)
  \/ \E j \in Jobs, outcome \in {"Running", "Succeeded", "Failed", "error"} :
       StatusResponse(j, outcome)
  \/ \E j \in Jobs : FetchOk(j)
  \/ \E j \in Jobs : FetchFail(j)
  \/ Unmount

SpecBatch == Init /\ [][NextBatch]_vars

\* BatchPractice over at most MaxUploads start uploads, each job polled at
\* most MaxUploadPolls times.
NextUpload ==
  /\ NextBatch
  /\ nStarts' <= MaxUploads
  /\ \A j \in Jobs : statusQueries'[j] <= MaxUploadPolls

SpecUpload == Init /\ [][NextUpload]_vars

\* The lifecycle over at most MaxStatusSockets sockets, with the status updates
\* of the practice components.
NextStatus ==
  \/ Next /\ Len(sockets') <= MaxStatusSockets
  \/ \E message \in StatusMessages : SendMessage(message)

SpecStatus == Init /\ [][NextStatus]_vars

\* The hub with its connections registering and closing, the teachers'
\* broadcasts and the students' clients.
NextHub ==
  \/ \E c \in Connections : HubRegister(c)
  \/ \E c \in Connections : HubUnregister(c)
  \/ \E cls \in Classes, p \in Topics : Broadcast(cls, p.mode, p.text)
  \/ \E c \in Connections : ClientReceive(c)

SpecHub == Init /\ [][NextHub]_vars

\* A student's screen: the lifecycle over at most MaxViewSockets sockets, the
\* topics of the dashboard's cards arriving, and the student's buttons.
NextView ==
  \/ Next /\ Len(sockets') <= MaxViewSockets
  \/ \E s \in 1..MaxViewSockets, p \in DashboardTopics :
       Receive(s, Frame([type |-> "new_topic", payload |-> p]))
  \/ TaskCompleteShown /\ TaskComplete
  \/ \E m \in SelectorModes : SelectMode(m)
  \/ ChangeMode
  \/ ShowProgress
  \/ ShowPractice

SpecView == Init /\ [][NextView]_vars

\* ================================================================ claims
\* The sockets that are connecting or open.
LiveSockets == { s \in DOMAIN sockets : sockets[s].readyState \in {"CONNECTING", "OPEN"} }

\* A current user, that user's class id and a token are all present.
HasIdentity ==
  /\ token # ""
  /\ currentUser # Null
  /\ currentUser.class_id # 0

\* The step started no retry: no timer, no increment, no new socket.
NoRetryStarted ==
  /\ timers' = timers
  /\ reconnectAttempts' = reconnectAttempts
  /\ Len(sockets') = Len(sockets)

\* C1: the retry timer started by the Nth consecutive non-clean close since the
\* last successful open has delay min(1000 * 2^(N-1), 30000), and the attempt
\* counter is 0 right after every successful open.
C1_BackoffByFailureCount ==
  [][ /\ (lastEvent'.kind = "close" /\ Len(timers') > Len(timers))
           => timers'[Len(timers')] = Min(1000 * Pow2(failCount' - 1), 30000)
      /\ lastEvent'.kind = "open" => reconnectAttempts' = 0 ]_vars

\* C2: neither the caller's teardown nor the close event of a socket the
\* cleanup closed, nor a close with code 1000, starts a retry timer, increments
\* the attempt counter or creates a socket.
C2_DeliberateCloseNoRetry ==
  [][ /\ lastEvent'.kind = "logout" => NoRetryStarted
      /\ ( /\ lastEvent'.kind = "close"
           /\ \/ lastEvent'.code = 1000
              \/ sockets[lastEvent'.sock].closedBy = "cleanup" )
           => NoRetryStarted ]_vars

C2_Witness ==
  /\ lastEvent.kind = "close"
  /\ lastEvent.code = 1005
  /\ token = ""
  /\ timers = << >>
  /\ reconnectAttempts = 0

\* The hook's current socket has closed with a code other than 1000 while the
\* credentials are present, and n sockets have been created so far.
RetryDue(n) ==
  /\ Len(sockets) = n
  /\ HasIdentity
  /\ lastEvent.kind = "close"
  /\ lastEvent.code # 1000
  /\ lastEvent.sock = effectWs

\* C3: after a non-clean close of the hook's socket, with the credentials
\* staying present, a new socket is eventually created; and the hook is never
\* left with its socket closed non-cleanly and no timer pending.
C3_RetryEventually ==
  /\ [](( /\ HasIdentity
          /\ effectWs # 0
          /\ sockets[effectWs].readyState = "CLOSED"
          /\ failCount > 0 ) => timers # << >>)
  /\ \A n \in 0..(MaxLiveSockets - 1) :
       RetryDue(n) ~> (Len(sockets) > n \/ ~HasIdentity)

C3_Witness ==
  /\ lastEvent.kind = "timer"
  /\ failCount = 2
  /\ reconnectAttempts = 2
  /\ effectWs = Len(sockets)
  /\ sockets[effectWs].readyState = "CONNECTING"

\* C4: at most one socket of the hook is connecting or open.
C4_AtMostOneLiveSocket == Cardinality(LiveSockets) <= 1

C4_Witness ==
  /\ Len(sockets) >= 2
  /\ sockets[1].readyState = "CLOSING"
  /\ sockets[2].readyState = "OPEN"

\* C5: every socket was created for a class id and with a token, and a retry
\* timer firing while a credential is missing changes nothing of the hook but
\* the attempt counter.
C5_NoSocketWithoutCredentials ==
  /\ [](\A s \in DOMAIN sockets : sockets[s].class_id # 0 /\ sockets[s].token # "")
  /\ [][ (lastEvent'.kind = "timer" /\ ~HasIdentity)
           => UNCHANGED << sockets, wsRef, effectWs, wsStatus >> ]_vars

C5_Witness ==
  /\ lastEvent.kind = "timer"
  /\ ~HasIdentity
  /\ reconnectAttempts = 1
  /\ Len(sockets) = 1

\* C6: a message handed to sendMessage while the hook's socket was not open is
\* on the wire in no later state: it is not queued and no open sends it.
C6_DroppedNeverSent ==
  \A i \in DOMAIN sendCalls :
    ~sendCalls[i].open => \A j \in DOMAIN wire : wire[j].call # i

C6_Witness ==
  /\ Len(sendCalls) = 2
  /\ ~sendCalls[1].open
  /\ sendCalls[2].open
  /\ Len(sockets) = 2
  /\ wire = << [sock |-> 2, data |-> sendCalls[2].message, call |-> 2] >>

\* C7: the status shown for each student is the status of the last update
\* processed for that student, or waiting when there was none (so an update
\* naming one student leaves what is shown for the others as it was).
C7_LastWriteWinsPerStudent ==
  \A id \in StudentIds :
    StatusShown(studentStatuses, id) =
      IF updatesSeen[id] = << >>
        THEN "waiting"
        ELSE updatesSeen[id][Len(updatesSeen[id])]

C7_Witness ==
  /\ updatesSeen[11] = << "recording", "completed" >>
  /\ updatesSeen[13] = << >>
  /\ StatusShown(studentStatuses, 11) = "completed"
  /\ StatusShown(studentStatuses, 13) = "waiting"

\* The frame is a new_topic message.
IsTopic(data) == data.json /\ data.value.type = "new_topic"

\* C8: processing a new_topic message sets the held assignment to its payload
\* whatever was held, and the held assignment changes in no other step than
\* that and the student's completion of the task.
C8_TopicReplacesAssignment ==
  [][ /\ (lastEvent'.kind = "message" /\ IsTopic(lastMessage'.data))
           => assignedTask' = lastMessage'.data.value.payload
      /\ assignedTask' # assignedTask
           => \/ lastEvent'.kind = "message" /\ IsTopic(lastMessage'.data)
              \/ lastEvent'.kind = "taskComplete" /\ assignedTask' = Null ]_vars

C8_Witness ==
  /\ nInbound = 2
  /\ lastEvent.kind = "message"
  /\ IsTopic(lastMessage.data)
  /\ assignedTask = [mode |-> "impromptu-chunked", text |-> "My favourite season"]
  /\ Len(sockets) = 2

\* C9: a ping is answered in the handler itself with exactly one pong, on the
\* socket that delivered it, with the assignment and the statuses unchanged;
\* and nothing but a ping puts a frame on the wire of this specification.
C9_PingAnsweredOnce ==
  [][ /\ (lastEvent'.kind = "message" /\ lastMessage'.data = PingFrame)
           => /\ wire' = Append(wire, [sock |-> lastEvent'.sock,
                                       data |-> [type |-> "pong"], call |-> 0])
              /\ sockets[lastEvent'.sock].readyState = "OPEN"
              /\ UNCHANGED << assignedTask, studentStatuses >>
      /\ wire' # wire
           => lastEvent'.kind = "message" /\ lastMessage'.data = PingFrame ]_vars

C9_Witness ==
  /\ lastEvent.kind = "message"
  /\ lastMessage.data = PingFrame
  /\ Len(wire) = 2
  /\ wire[2].sock = lastEvent.sock
  /\ wire[1].sock # wire[2].sock

\* The frame parses to a message of a type the handler does not know.
IsUnknown(data) ==
  /\ data.json
  /\ data.value.type \notin {"new_topic", "student_status_update", "ping"}

\* C10: a well-formed message of an unknown type throws nothing and leaves the
\* assignment, the status map, the lifecycle state and the attempt counter
\* (and the wire) unchanged.
C10_UnknownTypeIgnored ==
  [][ (lastEvent'.kind = "message" /\ IsUnknown(lastMessage'.data))
        => /\ ~lastMessage'.threw
           /\ UNCHANGED << assignedTask, studentStatuses, wsStatus,
                           reconnectAttempts, wire >> ]_vars

C10_Witness ==
  /\ lastEvent.kind = "message"
  /\ IsUnknown(lastMessage.data)
  /\ assignedTask # Null
  /\ wsStatus = "Connected"

\* C11: processing a malformed frame (a text that does not parse, or a
\* student_status_update without a payload) throws nothing out of the message
\* handler, leaves the assignment and the status map unchanged and leaves the
\* socket open.
C11_MalformedDropped ==
  [][ (lastEvent'.kind = "message" /\ lastMessage'.data \in MalformedFrames)
        => /\ ~lastMessage'.threw
           /\ UNCHANGED << assignedTask, studentStatuses >>
           /\ sockets'[lastEvent'.sock].readyState = "OPEN" ]_vars
\* The first Succeeded answer for job j has just been handled, every answer
\* before it having been Running.
FirstSucceeded(j) ==
  /\ lastBatch = BatchEvent("Succeeded", j)
  /\ \A i \in 1..(Len(answers[j]) - 1) : answers[j][i] = "Running"

\* C12: when the status service has answered Running k times and then
\* Succeeded for a job, k+1 status queries and one result fetch have been issued
\* for it and its poll timer is cleared; and once a job has been answered
\* Succeeded, no further status query is issued for it.
C12_PollsThenOneFetch ==
  /\ [](\A j \in Jobs :
          FirstSucceeded(j)
            => /\ statusQueries[j] = Len(answers[j])
               /\ resultFetches[j] = 1
               /\ j \notin intervals)
  /\ [][ \A j \in Jobs :
           "Succeeded" \in Range(answers[j])
             => statusQueries'[j] = statusQueries[j] ]_vars

\* C13: at most one result fetch is issued for a job.
C13_AtMostOneFetch == \A j \in Jobs : resultFetches[j] <= 1

\* C14: once BatchPractice is unmounted no poll timer exists, and no status
\* query is issued.
C14_NoPollAfterTeardown ==
  /\ [](~mounted => intervals = {})
  /\ [][ ~mounted => statusQueries' = statusQueries ]_vars

\* C15: once BatchPractice has been unmounted in the polling state (the status
\* stays what it was at the unmount) no poll timer exists, and no status query
\* is issued.
C15_TeardownWhilePollingClearsTimer ==
  /\ []((~mounted /\ batchStatus = "polling") => intervals = {})
  /\ [][ (~mounted /\ batchStatus = "polling")
           => statusQueries' = statusQueries ]_vars

\* C16: the handling of a failed start upload sets the error state, creates no
\* poll timer and issues no request; and every status query and result fetch
\* is for a job that a successful start upload was given.
C16_StartFailureNoPoll ==
  /\ [][ lastBatch'.kind = "startFail"
           => /\ mounted => batchStatus' = "error"
              /\ UNCHANGED << intervals, pollIntervalRef, queries, fetches,
                              statusQueries, resultFetches, nJobs >> ]_vars
  /\ [](\A j \in Jobs :
          (statusQueries[j] > 0 \/ resultFetches[j] > 0 \/ j \in intervals)
            => j <= nJobs)

C16_Witness ==
  /\ lastBatch.kind = "startFail"
  /\ batchStatus = "error"
  /\ nStarts = 2
  /\ nJobs = 1
  /\ statusQueries[1] = 1
  /\ intervals = {}

\* C17: the handling of a status query's transport failure, and of a failed
\* result fetch, sets the error state, leaves the job's poll timer cleared and
\* issues no request.
C17_FailureTerminalNoRetry ==
  [][ lastBatch'.kind \in {"error", "fetchFail"}
        => /\ mounted => batchStatus' = "error"
           /\ lastBatch'.job \notin intervals'
           /\ UNCHANGED << statusQueries, resultFetches >> ]_vars
\* The frames on the wire that come from a call of sendMessage.
SentFrames == { j \in DOMAIN wire : wire[j].call # 0 }

\* C18: every message of a practice component that reaches the wire is a
\* status_update that carries its status in a payload, so that the hub's relay
\* of it has the status the component sent as its payload.status.
C18_StatusInPayload ==
  \A j \in SentFrames :
    LET message == wire[j].data IN
      /\ message.type = "status_update"
      /\ "payload" \in DOMAIN message
      /\ \A st \in SentLabels :
           message = SendStatusUpdate(st)
             => HubRelay(11, message).payload.status = st

\* The status labels of the design's enumeration that a student reports.
StatusLabels == {"recording", "processing", "completed", "error"}

\* C19: every status a practice component sends, and every status stored in
\* the teacher's status map, is one of recording, processing, completed, error.
C19_StatusLabelsEnumerated ==
  /\ \A j \in SentFrames : wire[j].data.status \in StatusLabels
  /\ \A id \in DOMAIN studentStatuses : studentStatuses[id] \in StatusLabels
\* The assignment the teacher entered for broadcast b.
Assignment(b) == [mode |-> b.mode, text |-> b.text]

C21_NoReplayAfterReconnect ==
  /\ [](\A c \in Connections : c \notin hubMembers => hubInbox[c] = << >>)
  /\ [][ \A c \in Connections :
           /\ (c \notin hubMembers /\ c \in hubMembers')
                => hubInbox'[c] = << >> /\ clientTask'[c] = clientTask[c]
           /\ Len(hubInbox'[c]) > Len(hubInbox[c])
                => /\ c \in hubMembers
                   /\ hubInbox'[c][Len(hubInbox'[c])].n = Len(broadcasts')
                   /\ Len(broadcasts') = Len(broadcasts) + 1
           /\ clientTask'[c] # clientTask[c]
                => /\ c \in hubMembers
                   /\ hubInbox[c] # << >>
                   /\ clientTask'[c] = Assignment(broadcasts[Head(hubInbox[c]).n]) ]_vars

C21_Witness ==
  /\ Len(broadcasts) = 1
  /\ broadcasts[1].class = 7
  /\ broadcasts[1].to = {2}
  /\ 1 \in hubMembers
  /\ hubInbox[1] = << >>
  /\ clientTask[1] = Null
  /\ clientTask[2] = Assignment(broadcasts[1])
\* C22: the lifecycle state the hook exposes never goes from Connected
\* directly to Connecting, and never from Disconnected directly to Connected.
C22_LifecycleEdges ==
  [][ /\ ~(wsStatus = "Connected" /\ wsStatus' = "Connecting...")
      /\ ~(wsStatus = "Disconnected" /\ wsStatus' = "Connected") ]_vars

\* C26: an open event leaves the socket that opened as the hook's connection:
\* no socket is created by it, and the socket the hook referred to is open
\* afterwards.
C26_OpenKeepsSocket ==
  [][ lastEvent'.kind = "open"
        => /\ Len(sockets') = Len(sockets)
           /\ wsRef' = wsRef
           /\ effectWs' = effectWs
           /\ (effectWs # 0 => sockets'[effectWs].readyState = "OPEN") ]_vars

\* C27: a retry timeout that fires while the hook's current socket is
\* connecting or open was started by the close of an earlier socket; its firing
\* leaves the current socket as it is and creates no socket.
C27_StaleTimerHarmless ==
  [][ ( /\ lastEvent'.kind = "timer"
        /\ effectWs # 0
        /\ sockets[effectWs].readyState \in {"CONNECTING", "OPEN"} )
        => /\ sockets' = sockets
           /\ effectWs' = effectWs
           /\ wsRef' = wsRef ]_vars

\* C29: the exposed state is Connected only while the socket of the hook's
\* current effect is open.
C29_ConnectedOnlyWhileOpen ==
  wsStatus = "Connected"
    => /\ effectWs # 0
       /\ sockets[effectWs].readyState = "OPEN"
\* The handlers of BatchPractice that complete a start upload, a status query
\* or a result fetch.
ResponseKinds ==
  {"startOk", "startFail", "Running", "Succeeded", "Failed", "error",
   "fetchOk", "fetchFail"}

\* C23: while the mounted component shows a terminal state (success or error),
\* nothing but the user's next recording changes the state, issues a status
\* query or issues a result fetch.
C23_TerminalIsFinal ==
  [][ ( /\ mounted
        /\ batchStatus \in {"success", "error"}
        /\ lastBatch'.kind \notin {"record", "unmount"} )
        => /\ batchStatus' = batchStatus
           /\ statusQueries' = statusQueries
           /\ resultFetches' = resultFetches ]_vars

\* C24: a start, status or result response handled after the component was
\* unmounted creates no interval, issues no result fetch and changes no state
\* of the component.
C24_NoEffectAfterTeardown ==
  [][ (~mounted /\ lastBatch'.kind \in ResponseKinds)
        => /\ intervals' \subseteq intervals
           /\ resultFetches' = resultFetches
           /\ UNCHANGED << batchStatus, jobId, results >> ]_vars

\* C25: no job ever has more than one status query in flight.
C25_OneQueryInFlight ==
  \A j \in Jobs : queries[j] <= 1

\* C28: a status response of a job other than the one the component is on, or
\* one that arrives while the user records or uploads again, clears no
\* interval, changes no state and issues no result fetch.
C28_LateResponseHarmless ==
  [][ ( /\ mounted
        /\ lastBatch'.kind \in {"Running", "Succeeded", "Failed", "error"}
        /\ \/ lastBatch'.job # jobId
           \/ batchStatus \in {"recording", "uploading"} )
        => /\ intervals' = intervals
           /\ batchStatus' = batchStatus
           /\ resultFetches' = resultFetches ]_vars
\* The practice component of a broadcast mode.
PracticeComponent(m) ==
  IF m = "pronunciation" THEN "PronunciationPractice"
  ELSE IF m = "impromptu-chunked" THEN "ChunkedImpromptuPractice"
  ELSE "HybridGroqPractice"

\* C30: a student who holds an assignment whose mode is one of the dashboard's
\* is shown that mode's practice component with the assigned text.
C30_AssignedModeShown ==
  ( /\ IsStudent
    /\ assignedTask # Null
    /\ assignedTask.mode \in BroadcastModes )
    => StudentMain = Element(PracticeComponent(assignedTask.mode), assignedTask.text)
====
